---------------------------- MODULE Spec2Model ----------------------------
(***************************************************************************)
(* Model of the date handling of make_ends_meet: the Duration class and    *)
(* the four span generators registered with it.  The repository carries    *)
(* two copies of the module, date_handler.py and source/date_handler.py;   *)
(* both are modelled, and the variable `module` says which one the         *)
(* program has imported.                                                   *)
(*                                                                         *)
(* A datetime.date is modelled by its proleptic Gregorian ordinal (the     *)
(* value of date.toordinal()), so that date + n*date.resolution is n added *)
(* to the ordinal and the comparison of dates is the comparison of         *)
(* ordinals.                                                               *)
(***************************************************************************)
EXTENDS Integers, Sequences, FiniteSets, TLC

\* ------------------------------------------------------------------------
\* Bounds of the model
\* ------------------------------------------------------------------------

\* every anchor date is an input together with its MaxOffset successors
MaxOffset == 2

\* a range is an input for a period when it is at most MaxSpans periods long
MaxSpans == 2

\* number of iterators (generator objects) alive at the same time
MaxIters == 2

\* ------------------------------------------------------------------------
\* datetime.date and calendar
\* ------------------------------------------------------------------------

\* calendar.isleap
isleap(y) == (y % 4 = 0) /\ ((y % 100 # 0) \/ (y % 400 = 0))

\* calendar.mdays, January at index 1
mdays == <<31, 28, 31, 30, 31, 30, 31, 31, 30, 31, 30, 31>>

\* calendar.monthrange(year, month)[1]: number of days of the month
monthlen(y, m) == mdays[m] + (IF m = 2 /\ isleap(y) THEN 1 ELSE 0)

\* number of days of the years before year y
days_before_year(y) ==
    LET p == y - 1 IN p * 365 + (p \div 4) - (p \div 100) + (p \div 400)

\* number of days of year y before the first day of month m
RECURSIVE days_before_month(_, _)
days_before_month(y, m) ==
    IF m = 1 THEN 0 ELSE days_before_month(y, m - 1) + monthlen(y, m - 1)

\* datetime.date(year, month, day), as an ordinal
date(y, m, d) == days_before_year(y) + days_before_month(y, m) + d

\* the (year, month, day) of the date of ordinal n, as datetime computes it
\* from the ordinal: 400-, 100-, 4- and 1-year cycles, then the month
ord2ymd_of(n) ==
    LET n0   == n - 1
        n400 == n0 \div 146097
        r400 == n0 % 146097
        n100 == r400 \div 36524
        r100 == r400 % 36524
        n4   == r100 \div 1461
        r4   == r100 % 1461
        n1   == r4 \div 365
        r1   == r4 % 365
        y    == n400 * 400 + 1 + n100 * 100 + n4 * 4 + n1
    IN  IF n1 = 4 \/ n100 = 4
        THEN [year |-> y - 1, month |-> 12, day |-> 31]
        ELSE LET m == CHOOSE k \in 1..12 :
                          /\ days_before_month(y, k) <= r1
                          /\ r1 < days_before_month(y, k) + monthlen(y, k)
             IN  [year |-> y, month |-> m, day |-> r1 - days_before_month(y, m) + 1]

\* the dates the model computes with, and their year, month and day
Calendar == date(2022, 1, 1) .. date(2026, 12, 31)

ymd == [n \in Calendar |-> ord2ymd_of(n)]

\* the year, month and day attributes of the date of ordinal n
ord2ymd(n) == ymd[n]

\* date.weekday(): Monday is 0, Sunday is 6
weekday(n) == (n + 6) % 7

\* date.resolution: one day
resolution == 1

\* class Span(namedtuple('Span', 'start stop'))
Span(start, stop) == [start |-> start, stop |-> stop]

\* ------------------------------------------------------------------------
\* Inputs
\* ------------------------------------------------------------------------

Anchors ==
    { date(2023, 2, 15), date(2023, 12, 30), date(2024, 2, 15),
      date(2024, 2, 28), date(2024, 6, 10),  date(2024, 6, 13) }

InputDates == { a + k : a \in Anchors, k \in 0..MaxOffset }

\* the periods with a registered generator function
Periods == {"year", "month", "week", "day"}

\* the values passed as period: the registered ones and one that is not
InputPeriods == Periods \cup {"quarter"}

\* the two copies of the module
Modules == {"date_handler", "source/date_handler"}

\* longest range (in days) given to a period, so that an iteration has
\* about MaxSpans spans
MaxRange(period) ==
    CASE period = "day"   -> MaxSpans
      [] period = "week"  -> MaxSpans * 7
      [] period = "month" -> MaxSpans * 31
      [] OTHER            -> MaxSpans * 366

\* ------------------------------------------------------------------------
\* State
\* ------------------------------------------------------------------------

None == [none |-> TRUE]

\* no exception raised
NoError == "no error"

RangeError  == "begin must be less than or equal to end"
PeriodError == "invalid literal for period"

VARIABLES
    module,     \* the copy of date_handler the program imported
    call,       \* arguments of the last call Duration(begin, end, period)
    duration,   \* the Duration object that call returned, or None
    error,      \* message of the ValueError that call raised, or NoError
    gens,       \* generator objects returned by iter(duration)
    out         \* the spans each generator has yielded to its consumer

VARIABLES
    made,       \* argument of the last call AccountBook(entries), or None
    book,       \* the AccountBook object that call returned, or None
    raised,     \* message of the exception that call raised, or NoError
    ret,        \* the last call of a method of book with its result, or None
    kept        \* the earlier calls whose results the caller still holds

VARIABLES
    date_range, \* the dates of the two DateSelector widgets of DateRange, or None
    event,      \* the last on_date_range event dispatched, with its cause, or None
    popup,      \* the BreakdownPopup that is open, or None
    chart       \* the values given to Display.plot_chart with its grid, or None

\* the state of the date handling, of the account book and of the GUI
dvars == <<module, call, duration, error, gens, out>>

bvars == <<made, book, raised, ret, kept>>

gvars == <<date_range, event, popup, chart>>

vars == <<module, call, duration, error, gens, out, made, book, raised, ret, kept,
         date_range, event, popup, chart>>

Iters == 1..MaxIters

\* ------------------------------------------------------------------------
\* The span generators.  A generator object is its frame: the arguments
\* begin and end, the locals start and stop, and the position pc, which is
\* "created" before the first next(), "yielded" while suspended at the
\* yield and "finished" once the loop has been left.  Each operator below
\* is one next() on the frame g.
\* ------------------------------------------------------------------------

NewFrame(period, begin, end) ==
    [period |-> period, pc |-> "created", begin |-> begin, end |-> end,
     start |-> 0, stop |-> 0]

\* generate_year_span leaving the loop only once stop is past end
generate_year_span_past_end(g) ==
    IF g.pc = "created"
    THEN LET start == date(ord2ymd(g.begin).year, 1, 1)
             stop  == date(ord2ymd(start).year, 12, 31)
         IN  [g EXCEPT !.pc = "yielded", !.start = start, !.stop = stop]
    ELSE IF g.stop > g.end
    THEN [g EXCEPT !.pc = "finished"]
    ELSE LET start == g.stop + resolution
             stop  == date(ord2ymd(start).year, 12, 31)
         IN  [g EXCEPT !.start = start, !.stop = stop]

\* generate_year_span starting with the year that follows begin
generate_year_span_following(g) ==
    IF g.pc = "created"
    THEN LET start == date(ord2ymd(g.begin).year + 1, 1, 1)
             stop  == date(ord2ymd(start).year, 12, 31)
         IN  [g EXCEPT !.pc = "yielded", !.start = start, !.stop = stop]
    ELSE IF g.stop >= g.end
    THEN [g EXCEPT !.pc = "finished"]
    ELSE LET start == g.stop + resolution
             stop  == date(ord2ymd(start).year, 12, 31)
         IN  [g EXCEPT !.start = start, !.stop = stop]

\* date_handler.py
generate_year_span(g) ==
    IF g.pc = "created"
    THEN LET start == date(ord2ymd(g.begin).year, 1, 1)
             stop  == date(ord2ymd(start).year, 12, 31)
         IN  [g EXCEPT !.pc = "yielded", !.start = start, !.stop = stop]
    ELSE IF g.stop >= g.end
    THEN [g EXCEPT !.pc = "finished"]
    ELSE LET start == g.stop + resolution
             stop  == date(ord2ymd(start).year, 12, 31)
         IN  [g EXCEPT !.start = start, !.stop = stop]

\* generate_month_span starting the next span on the previous stop
generate_month_span_overlap(g) ==
    IF g.pc = "created"
    THEN LET start == date(ord2ymd(g.begin).year, ord2ymd(g.begin).month, 1)
             stop  == start + (monthlen(ord2ymd(start).year, ord2ymd(start).month) - 1) * resolution
         IN  [g EXCEPT !.pc = "yielded", !.start = start, !.stop = stop]
    ELSE IF g.stop >= g.end
    THEN [g EXCEPT !.pc = "finished"]
    ELSE LET start == g.stop
             stop  == start + (monthlen(ord2ymd(start).year, ord2ymd(start).month) - 1) * resolution
         IN  [g EXCEPT !.start = start, !.stop = stop]

generate_month_span(g) ==
    IF g.pc = "created"
    THEN LET start == date(ord2ymd(g.begin).year, ord2ymd(g.begin).month, 1)
             stop  == start + (monthlen(ord2ymd(start).year, ord2ymd(start).month) - 1) * resolution
         IN  [g EXCEPT !.pc = "yielded", !.start = start, !.stop = stop]
    ELSE IF g.stop >= g.end
    THEN [g EXCEPT !.pc = "finished"]
    ELSE LET start == g.stop + resolution
             stop  == start + (monthlen(ord2ymd(start).year, ord2ymd(start).month) - 1) * resolution
         IN  [g EXCEPT !.start = start, !.stop = stop]

\* generate_week_span moving begin forward by its weekday
generate_week_span_forward(g) ==
    IF g.pc = "created"
    THEN LET start == g.begin + weekday(g.begin) * resolution
             stop  == start + 6 * resolution
         IN  [g EXCEPT !.pc = "yielded", !.start = start, !.stop = stop]
    ELSE IF g.stop >= g.end
    THEN [g EXCEPT !.pc = "finished"]
    ELSE LET start == g.stop + resolution
             stop  == start + 6 * resolution
         IN  [g EXCEPT !.start = start, !.stop = stop]

generate_week_span(g) ==
    IF g.pc = "created"
    THEN LET start == g.begin - weekday(g.begin) * resolution
             stop  == start + 6 * resolution
         IN  [g EXCEPT !.pc = "yielded", !.start = start, !.stop = stop]
    ELSE IF g.stop >= g.end
    THEN [g EXCEPT !.pc = "finished"]
    ELSE LET start == g.stop + resolution
             stop  == start + 6 * resolution
         IN  [g EXCEPT !.start = start, !.stop = stop]

\* generate_day_span leaving the loop only once stop is past end
generate_day_span_past_end(g) ==
    IF g.pc = "created"
    THEN LET start == g.begin
             stop  == start
         IN  [g EXCEPT !.pc = "yielded", !.start = start, !.stop = stop]
    ELSE IF g.stop > g.end
    THEN [g EXCEPT !.pc = "finished"]
    ELSE LET start == g.stop + resolution
             stop  == start
         IN  [g EXCEPT !.start = start, !.stop = stop]

generate_day_span(g) ==
    IF g.pc = "created"
    THEN LET start == g.begin
             stop  == start
         IN  [g EXCEPT !.pc = "yielded", !.start = start, !.stop = stop]
    ELSE IF g.stop >= g.end
    THEN [g EXCEPT !.pc = "finished"]
    ELSE LET start == g.stop + resolution
             stop  == start
         IN  [g EXCEPT !.start = start, !.stop = stop]

\* source/date_handler.py
year_increment(start) ==
    date(ord2ymd(start).year + 1, 1, 1) - date(ord2ymd(start).year, 1, 1) - resolution

month_increment(start) ==
    LET y == ord2ymd(start).year
        m == ord2ymd(start).month
    IN  date(y + (m \div 12), (m % 12) + 1, 1) - date(y, m, 1) - resolution

source_generate_year_span(g) ==
    IF g.pc = "created"
    THEN LET start == g.begin
             stop  == start + year_increment(start)
         IN  [g EXCEPT !.pc = "yielded", !.start = start, !.stop = stop]
    ELSE IF g.stop >= g.end
    THEN [g EXCEPT !.pc = "finished"]
    ELSE LET start == g.stop + resolution
             stop  == start + year_increment(start)
         IN  [g EXCEPT !.start = start, !.stop = stop]

source_generate_month_span(g) ==
    IF g.pc = "created"
    THEN LET start == g.begin
             stop  == start + month_increment(start)
         IN  [g EXCEPT !.pc = "yielded", !.start = start, !.stop = stop]
    ELSE IF g.stop >= g.end
    THEN [g EXCEPT !.pc = "finished"]
    ELSE LET start == g.stop + resolution
             stop  == start + month_increment(start)
         IN  [g EXCEPT !.start = start, !.stop = stop]

source_generate_week_span(g) ==
    IF g.pc = "created"
    THEN LET start == g.begin
             stop  == start + 6 * resolution
         IN  [g EXCEPT !.pc = "yielded", !.start = start, !.stop = stop]
    ELSE IF g.stop >= g.end
    THEN [g EXCEPT !.pc = "finished"]
    ELSE LET start == g.stop + resolution
             stop  == start + 6 * resolution
         IN  [g EXCEPT !.start = start, !.stop = stop]

source_generate_day_span(g) ==
    IF g.pc = "created"
    THEN LET start == g.begin
             stop  == start
         IN  [g EXCEPT !.pc = "yielded", !.start = start, !.stop = stop]
    ELSE IF g.stop >= g.end
    THEN [g EXCEPT !.pc = "finished"]
    ELSE LET start == g.stop + resolution
             stop  == start
         IN  [g EXCEPT !.start = start, !.stop = stop]

\* Duration._span_generators after the module has been imported: the keys
\* registered by the four @Duration.span_generator decorators
span_generators == Periods

\* next() on the generator object g of the module mod
send(mod, g) ==
    IF mod = "date_handler"
    THEN CASE g.period = "year"  -> generate_year_span(g)
           [] g.period = "month" -> generate_month_span(g)
           [] g.period = "week"  -> generate_week_span(g)
           [] g.period = "day"   -> generate_day_span(g)
    ELSE CASE g.period = "year"  -> source_generate_year_span(g)
           [] g.period = "month" -> source_generate_month_span(g)
           [] g.period = "week"  -> source_generate_week_span(g)
           [] g.period = "day"   -> source_generate_day_span(g)

\* ------------------------------------------------------------------------
\* class Duration
\* ------------------------------------------------------------------------

\* Duration.__init__ without the comparison of begin and end
Duration_init_unchecked(begin, end, period) ==
    IF period \notin span_generators
    THEN [object |-> None, error |-> PeriodError]
    ELSE [object |-> [begin |-> begin, end |-> end, period |-> period],
          error  |-> NoError]

\* Duration.__init__ falling back to the default period 'month' when the
\* period has no generator function
Duration_init_default_period(begin, end, period) ==
    IF begin > end
    THEN [object |-> None, error |-> RangeError]
    ELSE IF period \notin span_generators
    THEN [object |-> [begin |-> begin, end |-> end, period |-> "month"],
          error  |-> NoError]
    ELSE [object |-> [begin |-> begin, end |-> end, period |-> period],
          error  |-> NoError]

\* Duration.__init__: the object and the error of Duration(begin, end, period)
Duration_init(begin, end, period) ==
    IF begin > end
    THEN [object |-> None, error |-> RangeError]
    ELSE IF period \notin span_generators
    THEN [object |-> None, error |-> PeriodError]
    ELSE [object |-> [begin |-> begin, end |-> end, period |-> period],
          error  |-> NoError]

\* Duration.__iter__ handing out one generator object kept by the Duration:
\* a later iterator resumes where the earlier one stands
Duration_iter_shared(self) ==
    IF \E j \in Iters : gens[j] # None
    THEN gens[CHOOSE j \in Iters : gens[j] # None]
    ELSE NewFrame(self.period, self.begin, self.end)

\* Duration.__iter__: a new generator object over self.begin and self.end
Duration_iter(self) == NewFrame(self.period, self.begin, self.end)

\* list(span for span in duration): a new generator run to its end
RECURSIVE run(_, _, _)
run(mod, g, acc) ==
    LET h == send(mod, g)
    IN  IF h.pc = "finished" THEN acc
        ELSE run(mod, h, Append(acc, Span(h.start, h.stop)))

list(mod, self) == run(mod, Duration_iter(self), <<>>)

\* ------------------------------------------------------------------------
\* Actions
\* ------------------------------------------------------------------------

Init ==
    /\ module \in Modules
    /\ call = None
    /\ duration = None
    /\ error = NoError
    /\ gens = [i \in Iters |-> None]
    /\ out = [i \in Iters |-> <<>>]
    /\ made = None
    /\ book = None
    /\ raised = NoError
    /\ ret = None
    /\ kept = <<>>
    /\ date_range = None
    /\ event = None
    /\ popup = None
    /\ chart = None

\* duration = Duration(begin, end, period)
Construct(begin, end, period) ==
    /\ call = None
    /\ end - begin <= MaxRange(period)
    /\ call' = [begin |-> begin, end |-> end, period |-> period]
    /\ duration' = Duration_init(begin, end, period).object
    /\ error' = Duration_init(begin, end, period).error
    /\ UNCHANGED <<module, gens, out>>
    /\ UNCHANGED bvars
    /\ UNCHANGED gvars

\* it = iter(duration), the start of a for loop or of list(duration); the
\* generator objects are numbered in the order of their creation
Iter(i) ==
    /\ duration # None
    /\ gens[i] = None
    /\ \A j \in 1..(i - 1) : gens[j] # None
    /\ gens' = [gens EXCEPT ![i] = Duration_iter(duration)]
    /\ out' = [out EXCEPT ![i] = <<>>]
    /\ UNCHANGED <<module, call, duration, error>>
    /\ UNCHANGED bvars
    /\ UNCHANGED gvars

\* next(it): the generator runs to its next yield, or returns
NextSpan(i) ==
    /\ gens[i] # None
    /\ gens[i].pc # "finished"
    /\ LET g == send(module, gens[i])
       IN  /\ gens' = [gens EXCEPT ![i] = g]
           /\ out' = IF g.pc = "yielded"
                     THEN [out EXCEPT ![i] = Append(@, Span(g.start, g.stop))]
                     ELSE out
    /\ UNCHANGED <<module, call, duration, error>>
    /\ UNCHANGED bvars
    /\ UNCHANGED gvars

\* the caller drops the Duration object (or handles the ValueError) and
\* everything made from it
Discard ==
    /\ call # None
    /\ call' = None
    /\ duration' = None
    /\ error' = NoError
    /\ gens' = [i \in Iters |-> None]
    /\ out' = [i \in Iters |-> <<>>]
    /\ UNCHANGED module
    /\ UNCHANGED bvars
    /\ UNCHANGED gvars

Next ==
    \/ \E begin \in InputDates, end \in InputDates, period \in InputPeriods :
           Construct(begin, end, period)
    \/ \E i \in Iters : Iter(i)
    \/ \E i \in Iters : NextSpan(i)
    \/ Discard

Spec == Init /\ [][Next]_vars

\* the consumers of a generator (for loops, list()) run it to its end
FairSpec == Spec /\ \A i \in Iters : WF_vars(NextSpan(i))

\* ------------------------------------------------------------------------
\* account_book.py: Entry, SummaryData and AccountBook
\* ------------------------------------------------------------------------

\* longest list of entries an AccountBook is made of
MaxEntries == 2

\* an argument left at its default None, and an argument that is given
Absent == <<>>

Given(x) == <<x>>

\* date.min and date.max, as ordinals
date_min == 1

date_max == 3652059

\* class Entry(namedtuple('Entry', 'date, income, outgo, groups'))
Entry(d, income, outgo, groups) ==
    [date |-> d, income |-> income, outgo |-> outgo, groups |-> groups]

\* class SummaryData(namedtuple('SummaryData', 'span income outgo balance'))
SummaryData(span, income, outgo, balance) ==
    [span |-> span, income |-> income, outgo |-> outgo, balance |-> balance]

\* the rows of the csv file, as get_entries reads them; int() accepts a
\* negative amount
InputEntries ==
    { Entry(date(2024, 1, 5),  1000, 0,   <<"food", "groceries">>),
      Entry(date(2024, 1, 20), 0,    200, <<"food", "dining">>),
      Entry(date(2024, 1, 31), 30,   70,  <<"food", "dining">>),
      Entry(date(2024, 1, 31), -40,  -10, <<"food", "groceries">>),
      Entry(date(2024, 2, 10), 500,  0,   <<"income", "salary">>) }

RECURSIVE SeqsUpTo(_, _)
SeqsUpTo(S, n) ==
    IF n = 0 THEN { <<>> }
    ELSE LET shorter == SeqsUpTo(S, n - 1)
         IN  shorter \cup { Append(q, x) : q \in shorter, x \in S }

InputLists == SeqsUpTo(InputEntries, MaxEntries)

\* the values passed as begin and end, and as groups
InputBounds ==
    { Absent } \cup { Given(d) : d \in { date(2024, 1, 5), date(2024, 1, 31), date(2024, 2, 10) } }

InputGroups ==
    { Absent, Given(<<>>), Given(<<"food">>), Given(<<"food", "dining">>),
      Given(<<"dining">>), Given(<<"income", "salary", "extra">>) }

\* ValueError of min() and max() on an empty sequence
EmptyError == "min() arg is an empty sequence"

\* the errors of the span generator of the specification
InvalidRange == "InvalidRange"

UnknownGranularity == "UnknownGranularity"

\* zip(a, b) stops at the end of the shorter sequence
zip(a, b) ==
    [k \in 1..(IF Len(a) <= Len(b) THEN Len(a) ELSE Len(b)) |-> <<a[k], b[k]>>]

\* the builtins sum, min and max on a sequence of integers
RECURSIVE sum(_)
sum(q) == IF q = <<>> THEN 0 ELSE q[1] + sum(Tail(q))

RECURSIVE min(_)
min(q) ==
    IF Len(q) = 1 THEN q[1]
    ELSE LET m == min(Tail(q)) IN IF m < q[1] THEN m ELSE q[1]

RECURSIVE max(_)
max(q) ==
    IF Len(q) = 1 THEN q[1]
    ELSE LET m == max(Tail(q)) IN IF m > q[1] THEN m ELSE q[1]

\* Entry.filter_duration with begin itself left out of the duration
filter_duration_after_begin(self, begin, end) ==
    LET b == IF begin = Absent THEN date_min ELSE begin[1]
        e == IF end = Absent THEN date_max ELSE end[1]
    IN  b < self.date /\ self.date <= e

\* Entry.filter_duration with end itself left out of the duration
filter_duration_before_end(self, begin, end) ==
    LET b == IF begin = Absent THEN date_min ELSE begin[1]
        e == IF end = Absent THEN date_max ELSE end[1]
    IN  b <= self.date /\ self.date < e

\* Entry.filter_duration
filter_duration(self, begin, end) ==
    LET b == IF begin = Absent THEN date_min ELSE begin[1]
        e == IF end = Absent THEN date_max ELSE end[1]
    IN  b <= self.date /\ self.date <= e

\* Entry.filter_groups with any() in the place of all()
filter_groups_any(self, groups) ==
    IF groups = Absent THEN TRUE
    ELSE \E k \in DOMAIN zip(self.groups, groups[1]) :
             zip(self.groups, groups[1])[k][1] = zip(self.groups, groups[1])[k][2]

\* Entry.filter_groups comparing with an empty list when groups is None
filter_groups_none_is_empty(self, groups) ==
    IF groups = Absent THEN self.groups = <<>>
    ELSE \A k \in DOMAIN zip(self.groups, groups[1]) :
             zip(self.groups, groups[1])[k][1] = zip(self.groups, groups[1])[k][2]

\* Entry.filter_groups
filter_groups(self, groups) ==
    IF groups = Absent THEN TRUE
    ELSE \A k \in DOMAIN zip(self.groups, groups[1]) :
             zip(self.groups, groups[1])[k][1] = zip(self.groups, groups[1])[k][2]

\* AccountBook.__init__ with min and max exchanged
AccountBook_init_exchanged(entries) ==
    IF entries = <<>>
    THEN [object |-> None, error |-> EmptyError]
    ELSE [object |-> [entries  |-> entries,
                      min_date |-> max([k \in 1..Len(entries) |-> entries[k].date]),
                      max_date |-> min([k \in 1..Len(entries) |-> entries[k].date])],
          error  |-> NoError]

\* AccountBook.__init__ storing each entry once, as list(set(entries)) would
AccountBook_init_deduplicated(entries) ==
    IF entries = <<>>
    THEN [object |-> None, error |-> EmptyError]
    ELSE [object |-> [entries  |->
                          LET first == SelectSeq([k \in 1..Len(entries) |-> k],
                                                 LAMBDA k : \A j \in 1..(k - 1) : entries[j] # entries[k])
                          IN  [i \in 1..Len(first) |-> entries[first[i]]],
                      min_date |-> min([k \in 1..Len(entries) |-> entries[k].date]),
                      max_date |-> max([k \in 1..Len(entries) |-> entries[k].date])],
          error  |-> NoError]

\* AccountBook.__init__: the object and the error of AccountBook(entries)
AccountBook_init(entries) ==
    IF entries = <<>>
    THEN [object |-> None, error |-> EmptyError]
    ELSE [object |-> [entries  |-> entries,
                      min_date |-> min([k \in 1..Len(entries) |-> entries[k].date]),
                      max_date |-> max([k \in 1..Len(entries) |-> entries[k].date])],
          error  |-> NoError]

\* the entries of the generator expression of the three sums
selected(self, begin, end, groups) ==
    SelectSeq(self.entries,
              LAMBDA entry : filter_duration(entry, begin, end) /\ filter_groups(entry, groups))

\* AccountBook.sum_income
sum_income(self, begin, end, groups) ==
    LET q == selected(self, begin, end, groups)
    IN  sum([k \in 1..Len(q) |-> q[k].income])

\* AccountBook.sum_outgo
sum_outgo(self, begin, end, groups) ==
    LET q == selected(self, begin, end, groups)
    IN  sum([k \in 1..Len(q) |-> q[k].outgo])

\* AccountBook.sum_balance adding the outgo instead of subtracting it
sum_balance_added(self, begin, end, groups) ==
    LET q == selected(self, begin, end, groups)
    IN  sum([k \in 1..Len(q) |-> q[k].income + q[k].outgo])

\* AccountBook.sum_balance
sum_balance(self, begin, end, groups) ==
    LET q == selected(self, begin, end, groups)
    IN  sum([k \in 1..Len(q) |-> q[k].income - q[k].outgo])

\* Period of date_handler, which account_book imports: the span generator
\* as the specification describes it.  The first span starts on begin
\* (day), on the Monday on or before begin (week), on the 1st of begin's
\* month (month) or on January 1 of begin's year (year).
Period_first(begin, period) ==
    CASE period = "day"   -> begin
      [] period = "week"  -> begin - weekday(begin)
      [] period = "month" -> date(ord2ymd(begin).year, ord2ymd(begin).month, 1)
      [] period = "year"  -> date(ord2ymd(begin).year, 1, 1)

\* the stop of the span that starts on start
Period_stop(start, period) ==
    CASE period = "day"   -> start
      [] period = "week"  -> start + 6
      [] period = "month" -> date(ord2ymd(start).year, ord2ymd(start).month,
                                  monthlen(ord2ymd(start).year, ord2ymd(start).month))
      [] period = "year"  -> date(ord2ymd(start).year, 12, 31)

\* the spans from start on: at least one, and one more while stop < end
RECURSIVE Period_from(_, _, _)
Period_from(start, end, period) ==
    LET stop == Period_stop(start, period)
    IN  IF stop >= end THEN << Span(start, stop) >>
        ELSE << Span(start, stop) >> \o Period_from(stop + 1, end, period)

\* list(Period(begin, end, period)), or the error it fails with
Period(begin, end, period) ==
    IF begin > end
    THEN [spans |-> <<>>, error |-> InvalidRange]
    ELSE IF period \notin Periods
    THEN [spans |-> <<>>, error |-> UnknownGranularity]
    ELSE [spans |-> Period_from(Period_first(begin, period), end, period),
          error |-> NoError]

\* AccountBook.summarize inserting each row at the head of the list
summarize_reversed(self, begin, end, groups, period) ==
    LET b == IF begin = Absent THEN self.min_date ELSE begin[1]
        e == IF end = Absent THEN self.max_date ELSE end[1]
        p == Period(b, e, period)
    IN  IF p.error # NoError
        THEN [summary |-> <<>>, error |-> p.error]
        ELSE [summary |->
                  [k \in 1..Len(p.spans) |->
                      LET span  == p.spans[Len(p.spans) + 1 - k]
                      IN  SummaryData(span,
                                      sum_income(self, Given(span.start), Given(span.stop), groups),
                                      sum_outgo(self, Given(span.start), Given(span.stop), groups),
                                      sum_balance(self, Given(span.start), Given(span.stop), groups))],
              error |-> NoError]

\* AccountBook.summarize catching the error of Period and returning []
summarize_swallowed(self, begin, end, groups, period) ==
    LET b == IF begin = Absent THEN self.min_date ELSE begin[1]
        e == IF end = Absent THEN self.max_date ELSE end[1]
        p == Period(b, e, period)
    IN  [summary |->
             [k \in 1..Len(p.spans) |->
                 LET start == p.spans[k].start
                     stop  == p.spans[k].stop
                 IN  SummaryData(p.spans[k],
                                 sum_income(self, Given(start), Given(stop), groups),
                                 sum_outgo(self, Given(start), Given(stop), groups),
                                 sum_balance(self, Given(start), Given(stop), groups))],
         error |-> NoError]

\* AccountBook.summarize summing each row from begin instead of start
summarize_cumulative(self, begin, end, groups, period) ==
    LET b == IF begin = Absent THEN self.min_date ELSE begin[1]
        e == IF end = Absent THEN self.max_date ELSE end[1]
        p == Period(b, e, period)
    IN  IF p.error # NoError
        THEN [summary |-> <<>>, error |-> p.error]
        ELSE [summary |->
                  [k \in 1..Len(p.spans) |->
                      LET stop  == p.spans[k].stop
                      IN  SummaryData(p.spans[k],
                                      sum_income(self, Given(b), Given(stop), groups),
                                      sum_outgo(self, Given(b), Given(stop), groups),
                                      sum_balance(self, Given(b), Given(stop), groups))],
              error |-> NoError]

\* AccountBook.summarize: the list of SummaryData, or the error of Period
summarize(self, begin, end, groups, period) ==
    LET b == IF begin = Absent THEN self.min_date ELSE begin[1]
        e == IF end = Absent THEN self.max_date ELSE end[1]
        p == Period(b, e, period)
    IN  IF p.error # NoError
        THEN [summary |-> <<>>, error |-> p.error]
        ELSE [summary |->
                  [k \in 1..Len(p.spans) |->
                      LET start == p.spans[k].start
                          stop  == p.spans[k].stop
                      IN  SummaryData(p.spans[k],
                                      sum_income(self, Given(start), Given(stop), groups),
                                      sum_outgo(self, Given(start), Given(stop), groups),
                                      sum_balance(self, Given(start), Given(stop), groups))],
              error |-> NoError]

\* the record of a call of a method of book
Call(op, begin, end, groups, period, value, summary, err) ==
    [op |-> op, begin |-> begin, end |-> end, groups |-> groups, period |-> period,
     value |-> value, summary |-> summary, error |-> err]

\* book = AccountBook(entries)
NewBook(entries) ==
    /\ made = None
    /\ made' = [entries |-> entries]
    /\ book' = AccountBook_init(entries).object
    /\ raised' = AccountBook_init(entries).error
    /\ UNCHANGED <<ret, kept>>
    /\ UNCHANGED dvars
    /\ UNCHANGED gvars

\* book.sum_income(begin, end, groups)
SumIncome(begin, end, groups) ==
    /\ book # None
    /\ ret = None
    /\ ret' = Call("sum_income", begin, end, groups, "",
                   sum_income(book, begin, end, groups), <<>>, NoError)
    /\ UNCHANGED <<made, book, raised, kept>>
    /\ UNCHANGED dvars
    /\ UNCHANGED gvars

\* book.sum_outgo(begin, end, groups)
SumOutgo(begin, end, groups) ==
    /\ book # None
    /\ ret = None
    /\ ret' = Call("sum_outgo", begin, end, groups, "",
                   sum_outgo(book, begin, end, groups), <<>>, NoError)
    /\ UNCHANGED <<made, book, raised, kept>>
    /\ UNCHANGED dvars
    /\ UNCHANGED gvars

\* book.sum_balance taking the entries it sums out of the list
SumBalance_consuming(begin, end, groups) ==
    /\ book # None
    /\ ret = None
    /\ ret' = Call("sum_balance", begin, end, groups, "",
                   sum_balance(book, begin, end, groups), <<>>, NoError)
    /\ book' = [book EXCEPT !.entries =
                   SelectSeq(@, LAMBDA entry : ~(/\ filter_duration(entry, begin, end)
                                                 /\ filter_groups(entry, groups)))]
    /\ UNCHANGED <<made, raised, kept>>
    /\ UNCHANGED dvars
    /\ UNCHANGED gvars

\* book.sum_balance(begin, end, groups)
SumBalance(begin, end, groups) ==
    /\ book # None
    /\ ret = None
    /\ ret' = Call("sum_balance", begin, end, groups, "",
                   sum_balance(book, begin, end, groups), <<>>, NoError)
    /\ UNCHANGED <<made, book, raised, kept>>
    /\ UNCHANGED dvars
    /\ UNCHANGED gvars

\* book.summarize storing a begin that is given as the minimum date
Summarize_storing(begin, end, groups, period) ==
    /\ book # None
    /\ ret = None
    /\ LET r == summarize(book, begin, end, groups, period)
       IN  ret' = Call("summarize", begin, end, groups, period, 0, r.summary, r.error)
    /\ book' = IF begin = Absent THEN book ELSE [book EXCEPT !.min_date = begin[1]]
    /\ UNCHANGED <<made, raised, kept>>
    /\ UNCHANGED dvars
    /\ UNCHANGED gvars

\* book.summarize(begin, end, groups, period)
Summarize(begin, end, groups, period) ==
    /\ book # None
    /\ ret = None
    /\ LET r == summarize(book, begin, end, groups, period)
       IN  ret' = Call("summarize", begin, end, groups, period, 0, r.summary, r.error)
    /\ UNCHANGED <<made, book, raised, kept>>
    /\ UNCHANGED dvars
    /\ UNCHANGED gvars

\* the caller has used the result of the call and goes on
Return ==
    /\ ret # None
    /\ ret' = None
    /\ UNCHANGED <<made, book, raised, kept>>
    /\ UNCHANGED dvars
    /\ UNCHANGED gvars

\* the program ends with the book, or with the exception of AccountBook
DropBook ==
    /\ made # None
    /\ made' = None
    /\ book' = None
    /\ raised' = NoError
    /\ ret' = None
    /\ kept' = <<>>
    /\ UNCHANGED dvars
    /\ UNCHANGED gvars

\* AccountBook.get_breakdown(span), which gui/breakdown.py calls and
\* account_book.py does not define: breakdown(span) of the specification,
\* the sum of income - outgo of the entries with start <= date <= stop for
\* each first element of their groups
get_breakdown(self, span) ==
    LET inside == SelectSeq(self.entries,
                            LAMBDA entry : span.start <= entry.date /\ entry.date <= span.stop)
        labels == { inside[k].groups[1] : k \in 1..Len(inside) }
    IN  [label \in labels |->
            LET q == SelectSeq(inside, LAMBDA entry : entry.groups[1] = label)
            IN  sum([k \in 1..Len(q) |-> q[k].income - q[k].outgo])]

\* the spans a breakdown is asked for: the year 2024, its January, February
\* and March, the week from January 29 and the day January 31
InputSpans ==
    { Span(date(2024, 1, 1), date(2024, 12, 31)),
      Span(date(2024, 1, 1), date(2024, 1, 31)),
      Span(date(2024, 2, 1), date(2024, 2, 29)),
      Span(date(2024, 1, 29), date(2024, 2, 4)),
      Span(date(2024, 1, 31), date(2024, 1, 31)),
      Span(date(2024, 3, 1), date(2024, 3, 31)) }

\* breakdown = App.get_running_app().book.get_breakdown(span)
GetBreakdown(span) ==
    /\ book # None
    /\ ret = None
    /\ ret' = [op |-> "get_breakdown", span |-> span,
               breakdown |-> get_breakdown(book, span), error |-> NoError]
    /\ UNCHANGED <<made, book, raised, kept>>
    /\ UNCHANGED dvars
    /\ UNCHANGED gvars

InitBook == Init /\ module = "date_handler"

NextBook ==
    \/ \E entries \in InputLists : NewBook(entries)
    \/ \E begin \in InputBounds, end \in InputBounds, groups \in InputGroups :
           SumIncome(begin, end, groups)
    \/ \E begin \in InputBounds, end \in InputBounds, groups \in InputGroups :
           SumOutgo(begin, end, groups)
    \/ \E begin \in InputBounds, end \in InputBounds, groups \in InputGroups :
           SumBalance(begin, end, groups)
    \/ \E begin \in InputBounds, end \in InputBounds, groups \in InputGroups,
          period \in InputPeriods :
           Summarize(begin, end, groups, period)
    \/ \E span \in InputSpans : GetBreakdown(span)
    \/ Return
    \/ DropBook

SpecBook == InitBook /\ [][NextBook]_vars

\* A caller that holds on to the results of its calls: the ledgers, bounds
\* and filters it uses, and the number of results it holds
MaxKept == 2

KeptEntries ==
    { Entry(date(2024, 1, 5),  1000, 0, <<"food", "groceries">>),
      Entry(date(2024, 2, 10), 500,  0, <<"income", "salary">>) }

KeptLists == SeqsUpTo(KeptEntries, MaxEntries)

KeptBounds == { Absent, Given(date(2024, 1, 31)) }

KeptGroups == { Absent, Given(<<"food">>) }

KeptSpans ==
    { Span(date(2024, 1, 1), date(2024, 1, 31)),
      Span(date(2024, 2, 1), date(2024, 2, 29)) }

\* the caller stores the result of the call and goes on
Keep ==
    /\ ret # None
    /\ Len(kept) < MaxKept
    /\ kept' = Append(kept, ret)
    /\ ret' = None
    /\ UNCHANGED <<made, book, raised>>
    /\ UNCHANGED dvars
    /\ UNCHANGED gvars

NextKept ==
    \/ \E entries \in KeptLists : NewBook(entries)
    \/ \E begin \in KeptBounds : SumIncome(begin, Absent, Absent)
    \/ \E begin \in KeptBounds : SumOutgo(begin, Absent, Absent)
    \/ \E begin \in KeptBounds : SumBalance(begin, Absent, Absent)
    \/ \E begin \in KeptBounds, groups \in KeptGroups :
           Summarize(begin, Absent, groups, "month")
    \/ \E span \in KeptSpans : GetBreakdown(span)
    \/ Keep
    \/ DropBook

SpecKept == InitBook /\ [][NextKept]_vars

\* ------------------------------------------------------------------------
\* gui: DateRange, BalanceChart and BreakdownPopup
\* ------------------------------------------------------------------------

\* the dates a DateSelector is set to
GuiDates ==
    { date(2024, 1, 31), date(2024, 2, 1), date(2024, 2, 10),
      date(2024, 2, 29), date(2024, 3, 1) }

\* the duration BalanceChart.__init__ starts with, for today = 2024-02-10:
\* the month of today (gui/balance_chart.py) or today alone (gui.py)
InitialRanges ==
    { [begin |-> date(2024, 2, 1), end |-> date(2024, 2, 29)],
      [begin |-> date(2024, 2, 10), end |-> date(2024, 2, 10)] }

\* the two DateSelector widgets of a DateRange
Selectors == {"begin", "end"}

\* DateRange.update_date_range with the two assignments exchanged
DateRange_update_date_range_exchanged(self, selector) ==
    IF self.begin > self.end
    THEN IF selector = "begin"
         THEN [self EXCEPT !.begin = self.end]
         ELSE [self EXCEPT !.end = self.begin]
    ELSE self

\* DateRange.update_date_range(selector): the dates of the two selectors
\* when the event is dispatched
DateRange_update_date_range(self, selector) ==
    IF self.begin > self.end
    THEN IF selector = "begin"
         THEN [self EXCEPT !.end = self.begin]
         ELSE [self EXCEPT !.begin = self.end]
    ELSE self

\* BalanceChart.update_date_range: Duration(begin, end, self.duration.period)
BalanceChart_update_date_range(self, begin, end) ==
    Duration_init(begin, end, self.period)

\* BalanceChart.update_period: Duration(begin, end, period) with the begin
\* and the end of self.duration
update_period(self, period) ==
    Duration_init(self.begin, self.end, period)

\* the exceptions of list.index and of list.__getitem__
ValueError == "is not in list"

IndexError == "list index out of range"

\* list.index(x), counted from 0; -1 stands for ValueError
index(xs, x) ==
    IF \E k \in 1..Len(xs) : xs[k] = x
    THEN (CHOOSE k \in 1..Len(xs) : xs[k] = x /\ \A j \in 1..(k - 1) : xs[j] # x) - 1
    ELSE -1

\* xs[p] of Python: p counts from 0, a negative p counts from the end
getitem(xs, p) ==
    IF p >= Len(xs) \/ p < -Len(xs)
    THEN [item |-> None, error |-> IndexError]
    ELSE [item |-> IF p >= 0 THEN xs[p + 1] ELSE xs[Len(xs) + p + 1], error |-> NoError]

\* BreakdownPopup.__init__ and BreakdownPopup.update
BreakdownPopup_init(span, spans) ==
    [span |-> span, duration_list |-> spans, error |-> NoError]

update(self, span) == [self EXCEPT !.span = span]

\* BreakdownPopup.show_prev
show_prev(self) ==
    LET i == index(self.duration_list, self.span)
    IN  IF i = -1 THEN [self EXCEPT !.error = ValueError]
        ELSE LET prev_span == getitem(self.duration_list, i - 1)
             IN  IF prev_span.error # NoError
                 THEN [self EXCEPT !.error = prev_span.error]
                 ELSE update(self, prev_span.item)

\* BreakdownPopup.show_next without the remainder by len(duration_list)
show_next_unwrapped(self) ==
    LET i == index(self.duration_list, self.span)
    IN  IF i = -1 THEN [self EXCEPT !.error = ValueError]
        ELSE LET next_span == getitem(self.duration_list, i + 1)
             IN  IF next_span.error # NoError
                 THEN [self EXCEPT !.error = next_span.error]
                 ELSE update(self, next_span.item)

\* BreakdownPopup.show_next
show_next(self) ==
    LET i == index(self.duration_list, self.span)
    IN  IF i = -1 THEN [self EXCEPT !.error = ValueError]
        ELSE LET next_span == getitem(self.duration_list,
                                      (i + 1) % Len(self.duration_list))
             IN  IF next_span.error # NoError
                 THEN [self EXCEPT !.error = next_span.error]
                 ELSE update(self, next_span.item)

\* a spinner of the DateSelector named selector changes, so that its date
\* becomes d: DateSelector.update_year, update_month or update_day calls
\* DateRange.update_date_range, which dispatches on_date_range to
\* BalanceChart.update_date_range
ChangeDate(selector, d) ==
    /\ date_range # None
    /\ popup = None
    /\ date_range[selector] # d
    /\ LET changed == [date_range EXCEPT ![selector] = d]
           r == DateRange_update_date_range(changed, selector)
           c == BalanceChart_update_date_range(duration, r.begin, r.end)
       IN  /\ date_range' = r
           /\ event' = [selector |-> selector, date |-> d,
                        begin |-> r.begin, end |-> r.end]
           /\ call' = [begin |-> r.begin, end |-> r.end, period |-> duration.period]
           /\ duration' = IF c.error = NoError THEN c.object ELSE duration
           /\ error' = c.error
    /\ UNCHANGED <<module, gens, out, popup, chart>>
    /\ UNCHANGED bvars

\* a PeriodToggle goes down: on_period is dispatched to
\* BalanceChart.update_period
SelectPeriod(period) ==
    /\ date_range # None
    /\ popup = None
    /\ LET c == update_period(duration, period)
       IN  /\ call' = [begin |-> duration.begin, end |-> duration.end, period |-> period]
           /\ duration' = IF c.error = NoError THEN c.object ELSE duration
           /\ error' = c.error
    /\ UNCHANGED <<module, gens, out, date_range, event, popup, chart>>
    /\ UNCHANGED bvars

\* Bar.show_breakdown: the bar of one of the spans of the chart is touched
ShowBreakdown ==
    /\ date_range # None
    /\ popup = None
    /\ \E k \in 1..Len(list(module, duration)) :
           popup' = BreakdownPopup_init(list(module, duration)[k], list(module, duration))
    /\ UNCHANGED <<date_range, event, chart>>
    /\ UNCHANGED dvars
    /\ UNCHANGED bvars

\* the prev button and the next button of the popup are released
ShowPrev ==
    /\ popup # None
    /\ popup.error = NoError
    /\ popup' = show_prev(popup)
    /\ UNCHANGED <<date_range, event, chart>>
    /\ UNCHANGED dvars
    /\ UNCHANGED bvars

ShowNext ==
    /\ popup # None
    /\ popup.error = NoError
    /\ popup' = show_next(popup)
    /\ UNCHANGED <<date_range, event, chart>>
    /\ UNCHANGED dvars
    /\ UNCHANGED bvars

\* the close button is released
Dismiss ==
    /\ popup # None
    /\ popup' = None
    /\ UNCHANGED <<date_range, event, chart>>
    /\ UNCHANGED dvars
    /\ UNCHANGED bvars

\* BalanceChart.__init__ and init_ui: the duration and the two selectors
InitGui ==
    /\ module \in Modules
    /\ \E r \in InitialRanges :
           /\ date_range = r
           /\ call = [begin |-> r.begin, end |-> r.end, period |-> "month"]
           /\ duration = Duration_init(r.begin, r.end, "month").object
    /\ error = NoError
    /\ gens = [i \in Iters |-> None]
    /\ out = [i \in Iters |-> <<>>]
    /\ made = None
    /\ book = None
    /\ raised = NoError
    /\ ret = None
    /\ kept = <<>>
    /\ event = None
    /\ popup = None
    /\ chart = None

NextGui ==
    \/ \E selector \in Selectors, d \in GuiDates : ChangeDate(selector, d)
    \/ \E period \in Periods : SelectPeriod(period)
    \/ ShowBreakdown
    \/ ShowPrev
    \/ ShowNext
    \/ Dismiss

SpecGui == InitGui /\ [][NextGui]_vars

\* ------------------------------------------------------------------------
\* gui: Display.plot_chart
\* ------------------------------------------------------------------------

\* longest list of values given to plot_chart
MaxValues == 2

\* the amounts of the bars
InputValues ==
    { -1000, -250, -101, -100, -99, -10, -9, -1, 0,
      1, 8, 9, 10, 11, 99, 100, 250, 999, 1000 }

InputValueLists == SeqsUpTo(InputValues, MaxValues) \ { <<>> }

\* 10**k
RECURSIVE pow10(_)
pow10(k) == IF k = 0 THEN 1 ELSE 10 * pow10(k - 1)

\* for n in itertools.count(): the step of the first
\* v = (n % 9 + 1) * 10**(n // 9) with v > values_max
RECURSIVE step_pos(_, _)
step_pos(n, values_max) ==
    LET v == ((n % 9) + 1) * pow10(n \div 9)
    IN  IF v > values_max THEN pow10(n \div 9) ELSE step_pos(n + 1, values_max)

\* for n in itertools.count(): the step of the first
\* v = -((n % 9 + 1) * 10**(n // 9)) with v <= values_min
RECURSIVE step_neg(_, _)
step_neg(n, values_min) ==
    LET v == -(((n % 9) + 1) * pow10(n \div 9))
    IN  IF v <= values_min THEN pow10(n \div 9) ELSE step_neg(n + 1, values_min)

\* for v in itertools.count(step=-step): the first v <= values_min
RECURSIVE count_down(_, _, _)
count_down(v, step, values_min) ==
    IF v <= values_min THEN v ELSE count_down(v - step, step, values_min)

\* for v in itertools.count(step=step): the first v > values_max
RECURSIVE count_up(_, _, _)
count_up(v, step, values_max) ==
    IF v > values_max THEN v ELSE count_up(v + step, step, values_max)

\* list(range(start, stop, step)) for step > 0
range(start, stop, step) ==
    IF stop <= start THEN <<>>
    ELSE [k \in 1..((stop - start + step - 1) \div step) |-> start + (k - 1) * step]

\* Display.plot_chart with stop = v in the place of stop = v + 1
plot_chart_stop_excluded(values) ==
    LET values_max == IF max(values) > 0 THEN max(values) ELSE 0
        values_min == IF min(values) < 0 THEN min(values) ELSE 0
        pos   == step_pos(0, values_max)
        neg   == step_neg(0, values_min)
        step  == IF neg > pos THEN neg ELSE pos
        start == count_down(0, step, values_min)
        stop  == count_up(0, step, values_max)
    IN  [pc |-> "plotted", values |-> values, step |-> step,
         grid_values |-> range(start, stop, step)]

\* Display.plot_chart(spans, values): the step and the grid values
plot_chart(values) ==
    LET values_max == IF max(values) > 0 THEN max(values) ELSE 0
        values_min == IF min(values) < 0 THEN min(values) ELSE 0
        pos   == step_pos(0, values_max)
        neg   == step_neg(0, values_min)
        step  == IF neg > pos THEN neg ELSE pos
        start == count_down(0, step, values_min)
        stop  == count_up(0, step, values_max) + 1
    IN  [pc |-> "plotted", values |-> values, step |-> step,
         grid_values |-> range(start, stop, step)]

\* BalanceChart.update_chart: self.display.plot_chart(spans, amounts)
PlotChart ==
    /\ chart # None
    /\ chart.pc = "called"
    /\ chart' = plot_chart(chart.values)
    /\ UNCHANGED <<date_range, event, popup>>
    /\ UNCHANGED dvars
    /\ UNCHANGED bvars

\* plot_chart is called with a list of values; the grid values of the
\* Display are the empty ListProperty
InitChart ==
    /\ module = "date_handler"
    /\ call = None
    /\ duration = None
    /\ error = NoError
    /\ gens = [i \in Iters |-> None]
    /\ out = [i \in Iters |-> <<>>]
    /\ made = None
    /\ book = None
    /\ raised = NoError
    /\ ret = None
    /\ kept = <<>>
    /\ date_range = None
    /\ event = None
    /\ popup = None
    /\ \E values \in InputValueLists :
           chart = [pc |-> "called", values |-> values, step |-> 0, grid_values |-> <<>>]

NextChart == PlotChart

SpecChart == InitChart /\ [][NextChart]_vars

\* ------------------------------------------------------------------------
\* Properties
\* ------------------------------------------------------------------------

Last(s) == s[Len(s)]

IsPrefix(s, t) == Len(s) <= Len(t) /\ \A k \in 1..Len(s) : s[k] = t[k]

Running(i) == gens[i] # None

Finished(i) == gens[i] # None /\ gens[i].pc = "finished"

\* C1: any two consecutive spans of one iteration are adjacent: the stop of
\* the first plus one day is the start of the second, for every period.
C1_Adjacent ==
    \A i \in Iters : \A k \in 1..(Len(out[i]) - 1) :
        out[i][k].stop + resolution = out[i][k + 1].start

C1_Witness ==
    \E i \in Iters : Finished(i) /\ Len(out[i]) >= 3 /\ gens[i].period = "month"

\* C2: the spans of a finished iteration cover [begin, end]: the first span
\* starts no later than begin, the last span stops no earlier than end and
\* every date from begin to end lies in exactly one span.
C2_Cover ==
    \A i \in Iters : Finished(i) =>
        /\ Len(out[i]) >= 1
        /\ out[i][1].start <= gens[i].begin
        /\ Last(out[i]).stop >= gens[i].end
        /\ \A d \in gens[i].begin .. gens[i].end :
               Cardinality({ k \in 1..Len(out[i]) :
                               out[i][k].start <= d /\ d <= out[i][k].stop }) = 1

C2_Witness ==
    \E i \in Iters :
        /\ Finished(i) /\ Len(out[i]) >= 2 /\ gens[i].period = "week"
        /\ out[i][1].start < gens[i].begin
        /\ Last(out[i]).stop > gens[i].end

\* C3: for period 'week' the first span starts on the most recent Monday on
\* or before begin, every span starts on a Monday and stops six days later;
\* begin = end = 2024-06-13 yields the span [2024-06-10, 2024-06-16].
C3_WeekAligned ==
    \A i \in Iters : (Running(i) /\ gens[i].period = "week") =>
        /\ \A k \in 1..Len(out[i]) :
               /\ weekday(out[i][k].start) = 0
               /\ out[i][k].stop = out[i][k].start + 6
        /\ Len(out[i]) >= 1 =>
               /\ out[i][1].start <= gens[i].begin
               /\ gens[i].begin - out[i][1].start <= 6
        /\ (Finished(i) /\ gens[i].begin = date(2024, 6, 13)
                        /\ gens[i].end = date(2024, 6, 13)) =>
               out[i] = << Span(date(2024, 6, 10), date(2024, 6, 16)) >>

\* C4: for period 'month' the first span starts on the 1st of begin's month
\* and every span runs from the 1st of a month to the last day of that
\* month; begin = end = 2024-02-15 yields [2024-02-01, 2024-02-29] and
\* begin = end = 2023-02-15 yields [2023-02-01, 2023-02-28].
C4_MonthAligned ==
    \A i \in Iters : (Running(i) /\ gens[i].period = "month") =>
        /\ \A k \in 1..Len(out[i]) :
               LET a == ord2ymd(out[i][k].start)
                   b == ord2ymd(out[i][k].stop)
               IN  /\ a.day = 1
                   /\ b.year = a.year /\ b.month = a.month
                   /\ ord2ymd(out[i][k].stop + 1).day = 1
        /\ Len(out[i]) >= 1 =>
               out[i][1].start = date(ord2ymd(gens[i].begin).year,
                                      ord2ymd(gens[i].begin).month, 1)
        /\ (Finished(i) /\ gens[i].begin = date(2024, 2, 15)
                        /\ gens[i].end = date(2024, 2, 15)) =>
               out[i] = << Span(date(2024, 2, 1), date(2024, 2, 29)) >>
        /\ (Finished(i) /\ gens[i].begin = date(2023, 2, 15)
                        /\ gens[i].end = date(2023, 2, 15)) =>
               out[i] = << Span(date(2023, 2, 1), date(2023, 2, 28)) >>

\* C5: for period 'year' the first span starts on January 1 of begin's
\* year, every span runs from January 1 to December 31 of one year and the
\* next span starts on January 1 of the following year.
C5_YearAligned ==
    \A i \in Iters : (Running(i) /\ gens[i].period = "year") =>
        /\ \A k \in 1..Len(out[i]) :
               LET y == ord2ymd(out[i][k].start).year
               IN  /\ out[i][k].start = date(y, 1, 1)
                   /\ out[i][k].stop = date(y, 12, 31)
                   /\ k < Len(out[i]) => out[i][k + 1].start = date(y + 1, 1, 1)
        /\ Len(out[i]) >= 1 =>
               out[i][1].start = date(ord2ymd(gens[i].begin).year, 1, 1)

\* C6: for period 'day' every span is a single date, the first span is
\* [begin, begin], a finished iteration has one span per date from begin to
\* end in increasing order, and its last span is [end, end].
C6_Day ==
    \A i \in Iters : (Running(i) /\ gens[i].period = "day") =>
        /\ \A k \in 1..Len(out[i]) :
               /\ out[i][k].start = out[i][k].stop
               /\ out[i][k].start = gens[i].begin + (k - 1)
               /\ out[i][k].stop <= gens[i].end
        /\ Finished(i) =>
               /\ Len(out[i]) = gens[i].end - gens[i].begin + 1
               /\ Last(out[i]) = Span(gens[i].end, gens[i].end)

C6_Witness ==
    \E i \in Iters :
        /\ Finished(i) /\ gens[i].period = "day"
        /\ gens[i].begin < gens[i].end
        /\ Len(out[i]) >= 3

\* C7: an iteration terminates.  At least one span is emitted, the stops
\* increase strictly, a next() on a suspended generator emits one more span
\* exactly when the last emitted stop is before end and finishes the
\* iteration otherwise, and every generator that is run finishes.
C7_Emitted ==
    \A i \in Iters : Running(i) =>
        /\ gens[i].pc # "created" => Len(out[i]) >= 1
        /\ \A k \in 1..(Len(out[i]) - 1) :
               /\ out[i][k].stop < out[i][k + 1].stop
               /\ out[i][k].stop < gens[i].end
        /\ Finished(i) => Last(out[i]).stop >= gens[i].end

C7_Step ==
    \A i \in Iters :
        (Running(i) /\ gens[i].pc = "yielded" /\ gens'[i] # gens[i] /\ gens'[i] # None) =>
            IF Last(out[i]).stop < gens[i].end
            THEN /\ gens'[i].pc = "yielded"
                 /\ Len(out'[i]) = Len(out[i]) + 1
                 /\ IsPrefix(out[i], out'[i])
            ELSE /\ gens'[i].pc = "finished"
                 /\ out'[i] = out[i]

C7_Terminates ==
    /\ []C7_Emitted
    /\ [][C7_Step]_vars
    /\ \A i \in Iters : Running(i) ~> (~Running(i) \/ Finished(i))

C7_Witness ==
    \E i \in Iters :
        /\ Finished(i) /\ Len(out[i]) >= 2
        /\ Last(out[i]).stop = gens[i].end

\* C8: Duration(begin, end, period) with begin > end raises the ValueError
\* of the range check, whatever the period; no Duration object is made, no
\* span is produced, and no Duration object has begin > end.
C8_RangeChecked ==
    /\ (call # None /\ call.begin > call.end) =>
           /\ error = RangeError
           /\ duration = None
           /\ \A i \in Iters : gens[i] = None /\ out[i] = <<>>
    /\ duration # None => duration.begin <= duration.end

C8_Witness ==
    call # None /\ call.begin > call.end /\ call.period = "week" /\ error = RangeError

\* C9 as stated: Duration(begin, end, period) with a period that is not one
\* of 'year', 'month', 'week', 'day' raises the ValueError of the period
\* check and produces no span; the four valid periods never raise it.
C9_PeriodChecked ==
    /\ (call # None /\ call.period \notin Periods) =>
           /\ error = PeriodError
           /\ duration = None
           /\ \A i \in Iters : gens[i] = None /\ out[i] = <<>>
    /\ (call # None /\ call.period \in Periods) => error # PeriodError

\* C9 amended: with begin <= end an unknown period raises the ValueError of
\* the period check; with begin > end the range check comes first and its
\* ValueError is raised instead.  Either way no Duration object is made and
\* no span is produced, and the four valid periods never raise the
\* ValueError of the period check.
C9_PeriodCheckedInRange ==
    /\ (call # None /\ call.period \notin Periods) =>
           /\ error = (IF call.begin <= call.end THEN PeriodError ELSE RangeError)
           /\ duration = None
           /\ \A i \in Iters : gens[i] = None /\ out[i] = <<>>
    /\ (call # None /\ call.period \in Periods) => error # PeriodError

C9_Witness ==
    call # None /\ call.period \notin Periods /\ call.begin <= call.end
                /\ error = PeriodError

\* C10: every iterator of a Duration yields the sequence that a single
\* iteration of it yields, however the iterators are interleaved: what one
\* has yielded is always a prefix of that sequence, and all of it once the
\* iterator is finished; two iterators agree on the spans both have yielded.
C10_Restartable ==
    /\ \A i \in Iters : Running(i) =>
           /\ IsPrefix(out[i], list(module, duration))
           /\ Finished(i) => out[i] = list(module, duration)
    /\ \A i, j \in Iters : (Running(i) /\ Running(j)) =>
           IsPrefix(out[i], out[j]) \/ IsPrefix(out[j], out[i])

C10_Witness ==
    \E i, j \in Iters :
        /\ i # j
        /\ Finished(i) /\ Len(out[i]) >= 2
        /\ Running(j) /\ gens[j].pc = "yielded" /\ Len(out[j]) = 1

\* C27: every span of Duration(begin, end, period) with begin <= end has
\* start <= stop and meets [begin, end]: its stop is not before begin and
\* its start is not after end; the first span contains begin and the last
\* span of a finished iteration contains end.
C27_Intersects ==
    \A i \in Iters : Running(i) =>
        /\ \A k \in 1..Len(out[i]) :
               /\ out[i][k].start <= out[i][k].stop
               /\ out[i][k].stop >= gens[i].begin
               /\ out[i][k].start <= gens[i].end
        /\ Len(out[i]) >= 1 =>
               (out[i][1].start <= gens[i].begin /\ gens[i].begin <= out[i][1].stop)
        /\ Finished(i) =>
               (Last(out[i]).start <= gens[i].end /\ gens[i].end <= Last(out[i]).stop)

C27_Witness ==
    \E i \in Iters :
        /\ Finished(i) /\ Len(out[i]) >= 2 /\ gens[i].period = "year"
        /\ out[i][1].start < gens[i].begin
        /\ gens[i].end < Last(out[i]).stop

\* ------------------------------------------------------------------------
\* Properties of the account book
\* ------------------------------------------------------------------------

\* the sum of f[x] over the elements x of the set S
RECURSIVE SumOver(_, _)
SumOver(S, f) ==
    IF S = {} THEN 0
    ELSE LET x == CHOOSE y \in S : TRUE IN f[x] + SumOver(S \ {x}, f)

\* the positions of the entries of book
Idx == 1..Len(book.entries)

Sums == {"sum_income", "sum_outgo", "sum_balance"}

\* the field of entry k that the operation op sums
Field(op) ==
    [k \in Idx |->
        CASE op = "sum_income" -> book.entries[k].income
          [] op = "sum_outgo"  -> book.entries[k].outgo
          [] OTHER             -> book.entries[k].income - book.entries[k].outgo]

\* the date d is in the range: a bound that is absent does not restrict it
InRange(d, begin, end) ==
    /\ begin # Absent => begin[1] <= d
    /\ end # Absent => d <= end[1]

Called(ops) == ret # None /\ ret.op \in ops

C12_PrefixMatch ==
    book # None =>
        \A k \in Idx : \A g \in InputGroups \ {Absent} :
            filter_groups(book.entries[k], g) <=> IsPrefix(g[1], book.entries[k].groups)

\* C13: a filter longer than the category sequence of an entry never
\* matches the entry, and the entry adds nothing to a sum with that filter.
C13_LongerNeverMatches ==
    /\ book # None =>
           \A k \in Idx : \A g \in InputGroups \ {Absent} :
               Len(g[1]) > Len(book.entries[k].groups) =>
                   ~filter_groups(book.entries[k], g)
    /\ (Called(Sums) /\ ret.groups # Absent) =>
           ret.value =
               SumOver({ k \in Idx :
                           /\ InRange(book.entries[k].date, ret.begin, ret.end)
                           /\ Len(ret.groups[1]) <= Len(book.entries[k].groups)
                           /\ filter_groups(book.entries[k], ret.groups) },
                       Field(ret.op))

\* C14: a filter that is None and a filter that is empty match every entry,
\* so the sum is the sum over all entries of the date range; a begin or an
\* end that is None puts no lower or upper limit on the date.
C14_AbsentMatchesAll ==
    /\ book # None =>
           \A k \in Idx : /\ filter_groups(book.entries[k], Absent)
                          /\ filter_groups(book.entries[k], Given(<<>>))
    /\ (Called(Sums) /\ ret.groups \in {Absent, Given(<<>>)}) =>
           ret.value =
               SumOver({ k \in Idx : InRange(book.entries[k].date, ret.begin, ret.end) },
                       Field(ret.op))

C14_Witness ==
    /\ Called({"sum_outgo"})
    /\ ret.groups = Given(<<>>)
    /\ ret.begin = Absent /\ ret.end # Absent
    /\ \E k \in Idx : book.entries[k].date > ret.end[1]
    /\ ret.value > 0

\* C15: sum_balance is sum_income minus sum_outgo for the same range and
\* filter, and every row of summarize has balance = income - outgo.
C15_Balance ==
    /\ Called({"sum_balance"}) =>
           ret.value = sum_income(book, ret.begin, ret.end, ret.groups)
                         - sum_outgo(book, ret.begin, ret.end, ret.groups)
    /\ Called({"summarize"}) =>
           \A k \in 1..Len(ret.summary) :
               ret.summary[k].balance = ret.summary[k].income - ret.summary[k].outgo

C15_Witness ==
    /\ Called({"summarize"})
    /\ ret.error = NoError
    /\ \E k \in 1..Len(ret.summary) :
           ret.summary[k].income > 0 /\ ret.summary[k].outgo > 0

\* C16: when no entry has a negative income, sum_income without a filter
\* is at least sum_income with any filter, also one longer than the
\* category sequences; the same for sum_outgo when no outgo is negative.
C16_Monotone ==
    /\ (Called({"sum_income"}) /\ \A k \in Idx : book.entries[k].income >= 0) =>
           sum_income(book, ret.begin, ret.end, Absent) >= ret.value
    /\ (Called({"sum_outgo"}) /\ \A k \in Idx : book.entries[k].outgo >= 0) =>
           sum_outgo(book, ret.begin, ret.end, Absent) >= ret.value

C16_Witness ==
    /\ Called({"sum_income"})
    /\ \A k \in Idx : book.entries[k].income >= 0
    /\ ret.groups # Absent
    /\ \A k \in Idx : Len(ret.groups[1]) > Len(book.entries[k].groups)
    /\ ret.value > 0
    /\ sum_income(book, ret.begin, ret.end, Absent) > ret.value

\* the begin and the end that a call of summarize works with
Effective(r) ==
    [begin |-> IF r.begin = Absent THEN book.min_date ELSE r.begin[1],
     end   |-> IF r.end = Absent THEN book.max_date ELSE r.end[1]]

\* C17: summarize returns one row per span of Duration(begin, end, period),
\* in the order of the spans; row i carries span i and the sum_income,
\* sum_outgo and sum_balance of span i with the filter of the call.
C17_Rows ==
    (Called({"summarize"}) /\ ret.error = NoError) =>
        LET spans == list("date_handler",
                          [begin  |-> Effective(ret).begin,
                           end    |-> Effective(ret).end,
                           period |-> ret.period])
        IN  /\ Len(ret.summary) = Len(spans)
            /\ \A k \in 1..Len(spans) :
                   /\ ret.summary[k].span = spans[k]
                   /\ ret.summary[k].income =
                          sum_income(book, Given(spans[k].start), Given(spans[k].stop), ret.groups)
                   /\ ret.summary[k].outgo =
                          sum_outgo(book, Given(spans[k].start), Given(spans[k].stop), ret.groups)
                   /\ ret.summary[k].balance =
                          sum_balance(book, Given(spans[k].start), Given(spans[k].stop), ret.groups)

C17_Witness ==
    /\ Called({"summarize"})
    /\ ret.error = NoError
    /\ ret.period = "month"
    /\ ret.groups = Given(<<"food", "dining">>)
    /\ Len(ret.summary) = 2
    /\ ret.summary[1].outgo > 0 /\ ret.summary[2].outgo = 0

\* the least and the greatest date of the entries of book
MinDate == CHOOSE d \in { book.entries[k].date : k \in Idx } :
               \A k \in Idx : d <= book.entries[k].date

MaxDate == CHOOSE d \in { book.entries[k].date : k \in Idx } :
               \A k \in Idx : d >= book.entries[k].date

\* C18: summarize takes the least entry date for a begin that is None and
\* the greatest entry date for an end that is None; with both None every
\* entry has its date in exactly one row's span and the rows add up to the
\* totals of the whole book.
C18_Defaults ==
    Called({"summarize"}) =>
        LET b == IF ret.begin = Absent THEN MinDate ELSE ret.begin[1]
            e == IF ret.end = Absent THEN MaxDate ELSE ret.end[1]
            r == summarize(book, Given(b), Given(e), ret.groups, ret.period)
            rows == 1..Len(ret.summary)
        IN  /\ ret.summary = r.summary
            /\ ret.error = r.error
            /\ (ret.begin = Absent /\ ret.end = Absent /\ ret.period \in Periods) =>
                   /\ ret.error = NoError
                   /\ \A k \in Idx :
                          Cardinality({ i \in rows :
                              /\ ret.summary[i].span.start <= book.entries[k].date
                              /\ book.entries[k].date <= ret.summary[i].span.stop }) = 1
                   /\ SumOver(rows, [i \in rows |-> ret.summary[i].income])
                          = sum_income(book, Absent, Absent, ret.groups)
                   /\ SumOver(rows, [i \in rows |-> ret.summary[i].outgo])
                          = sum_outgo(book, Absent, Absent, ret.groups)
                   /\ SumOver(rows, [i \in rows |-> ret.summary[i].balance])
                          = sum_balance(book, Absent, Absent, ret.groups)

C18_Witness ==
    /\ Called({"summarize"})
    /\ ret.begin = Absent /\ ret.end = Absent
    /\ ret.period = "week"
    /\ ret.error = NoError
    /\ Len(ret.summary) >= 2
    /\ ret.summary[1].income # 0
    /\ ret.summary[Len(ret.summary)].income # 0

\* the error of the specification for a default range on an empty ledger
EmptyLedger == "EmptyLedger"

\* C19: on a ledger of zero entries the error of an absent begin or end is
\* raised by the call of summarize: making the ledger raises nothing, and
\* summarize with begin or end absent fails with EmptyLedger and no rows.
C19_EmptyLedger ==
    (made # None /\ made.entries = <<>>) =>
        /\ raised = NoError
        /\ book # None
        /\ (Called({"summarize"}) /\ (ret.begin = Absent \/ ret.end = Absent)) =>
               ret.error = EmptyLedger /\ ret.summary = <<>>

\* C20: AccountBook(entries) takes any sequence of entries as it is, also
\* an empty one, one with duplicates and one out of order; on zero entries
\* the sums are 0 and summarize with begin <= end given returns one row per
\* span, each with income = outgo = balance = 0.
C20_AcceptsAny ==
    made # None =>
        /\ raised = NoError
        /\ book # None
        /\ book.entries = made.entries
        /\ (made.entries = <<>> /\ Called(Sums)) => ret.value = 0
        /\ (made.entries = <<>> /\ Called({"summarize"})
              /\ ret.begin # Absent /\ ret.end # Absent
              /\ ret.begin[1] <= ret.end[1] /\ ret.period \in Periods) =>
               /\ ret.error = NoError
               /\ Len(ret.summary) >= 1
               /\ \A k \in 1..Len(ret.summary) :
                      /\ ret.summary[k].income = 0
                      /\ ret.summary[k].outgo = 0
                      /\ ret.summary[k].balance = 0

\* C21: summarize fails with InvalidRange and returns no row whenever the
\* range it works with has begin > end: with both bounds given, with begin
\* given later than the greatest entry date and end absent, and with end
\* given earlier than the least entry date and begin absent.
C21_InvalidRange ==
    Called({"summarize"}) =>
        LET b == IF ret.begin = Absent THEN MinDate ELSE ret.begin[1]
            e == IF ret.end = Absent THEN MaxDate ELSE ret.end[1]
        IN  b > e => (ret.error = InvalidRange /\ ret.summary = <<>>)

C21_Witness ==
    /\ Called({"summarize"})
    /\ ret.begin # Absent /\ ret.end = Absent
    /\ ret.begin[1] > MaxDate
    /\ ret.error = InvalidRange

\* C22: two calls of summarize with the same begin, end, filter and period
\* on the same ledger return the same list of rows, whatever other calls of
\* the ledger are made between them.
C22_Pure ==
    Called({"summarize"}) =>
        \A k \in 1..Len(kept) :
            ( /\ kept[k].op = "summarize"
              /\ kept[k].begin = ret.begin /\ kept[k].end = ret.end
              /\ kept[k].groups = ret.groups /\ kept[k].period = ret.period )
            => (kept[k].summary = ret.summary /\ kept[k].error = ret.error)

C22_Witness ==
    /\ Called({"summarize"})
    /\ Len(kept) = 2
    /\ kept[1].op = "summarize" /\ kept[2].op # "summarize"
    /\ kept[1].begin = ret.begin /\ kept[1].groups = ret.groups
    /\ ret.error = NoError
    /\ \E k \in 1..Len(ret.summary) : ret.summary[k].income > 0

\* what the call r returns when it is the only call made on the ledger
\* that AccountBook(made.entries) returns
Alone(r) ==
    LET fresh == AccountBook_init(made.entries).object
    IN  CASE r.op = "sum_income" ->
                 r.value = sum_income(fresh, r.begin, r.end, r.groups)
          [] r.op = "sum_outgo" ->
                 r.value = sum_outgo(fresh, r.begin, r.end, r.groups)
          [] r.op = "sum_balance" ->
                 r.value = sum_balance(fresh, r.begin, r.end, r.groups)
          [] r.op = "summarize" ->
                 /\ r.summary = summarize(fresh, r.begin, r.end, r.groups, r.period).summary
                 /\ r.error = summarize(fresh, r.begin, r.end, r.groups, r.period).error
          [] r.op = "get_breakdown" ->
                 r.breakdown = get_breakdown(fresh, r.span)

\* C25: no call of sum_income, sum_outgo, sum_balance, summarize or
\* get_breakdown changes the ledger: after any sequence of them the entry
\* list and the stored minimum and maximum dates are those of construction,
\* and each call has returned what it returns as the only call made.
C25_Frame ==
    book # None =>
        /\ book.entries = made.entries
        /\ book = AccountBook_init(made.entries).object
        /\ ret # None => Alone(ret)
        /\ \A k \in 1..Len(kept) : Alone(kept[k])

C25_Witness ==
    /\ Len(kept) = 2
    /\ kept[1].op = "sum_balance" /\ kept[1].value > 0
    /\ kept[2].op = "summarize" /\ kept[2].begin # Absent
    /\ Called({"get_breakdown"})
    /\ DOMAIN ret.breakdown # {}

\* C23: the values of get_breakdown(span) add up to sum_balance over the
\* span with no filter.
C23_BreakdownTotal ==
    Called({"get_breakdown"}) =>
        SumOver(DOMAIN ret.breakdown, ret.breakdown)
            = sum_balance(book, Given(ret.span.start), Given(ret.span.stop), Absent)

C23_Witness ==
    /\ Called({"get_breakdown"})
    /\ Cardinality(DOMAIN ret.breakdown) = 2
    /\ \A label \in DOMAIN ret.breakdown : ret.breakdown[label] > 0
    /\ ret.span = Span(date(2024, 1, 1), date(2024, 12, 31))

\* the positions of the entries given to AccountBook whose date is in span
InSpan(span) ==
    { k \in 1..Len(made.entries) :
        span.start <= made.entries[k].date /\ made.entries[k].date <= span.stop }

\* C24: get_breakdown(span) has one key for each first element of groups
\* among the entries of the ledger with span.start <= date <= span.stop and
\* no other key, so none when no entry is in the span; the value of a key
\* is the sum of income - outgo over the entries in the span with that
\* first element, whatever their second element.
C24_BreakdownKeys ==
    Called({"get_breakdown"}) =>
        /\ DOMAIN ret.breakdown = { made.entries[k].groups[1] : k \in InSpan(ret.span) }
        /\ InSpan(ret.span) = {} => ret.breakdown = <<>>
        /\ \A label \in DOMAIN ret.breakdown :
               ret.breakdown[label] =
                   SumOver({ k \in InSpan(ret.span) : made.entries[k].groups[1] = label },
                           [k \in 1..Len(made.entries) |->
                               made.entries[k].income - made.entries[k].outgo])

C24_Witness ==
    /\ Called({"get_breakdown"})
    /\ DOMAIN ret.breakdown = {"food"}
    /\ \E j \in InSpan(ret.span), k \in InSpan(ret.span) :
           made.entries[j].groups[2] # made.entries[k].groups[2]
    /\ ret.breakdown["food"] = 800

\* C26: for begin <= end the income, outgo and balance of the rows of
\* summarize add up to sum_income, sum_outgo and sum_balance over the one
\* range from the start of the first row's span to the stop of the last
\* row's span with the same filter, and the date of every entry is in the
\* span of at most one row.
C26_RowTotals ==
    (Called({"summarize"}) /\ ret.error = NoError) =>
        LET rows == 1..Len(ret.summary)
            from == Given(ret.summary[1].span.start)
            to == Given(ret.summary[Len(ret.summary)].span.stop)
        IN  /\ rows # {}
            /\ SumOver(rows, [i \in rows |-> ret.summary[i].income])
                   = sum_income(book, from, to, ret.groups)
            /\ SumOver(rows, [i \in rows |-> ret.summary[i].outgo])
                   = sum_outgo(book, from, to, ret.groups)
            /\ SumOver(rows, [i \in rows |-> ret.summary[i].balance])
                   = sum_balance(book, from, to, ret.groups)
            /\ \A k \in Idx :
                   Cardinality({ i \in rows :
                       /\ ret.summary[i].span.start <= book.entries[k].date
                       /\ book.entries[k].date <= ret.summary[i].span.stop }) <= 1

C26_Witness ==
    /\ Called({"summarize"})
    /\ ret.error = NoError
    /\ ret.begin # Absent /\ ret.end # Absent
    /\ ret.period = "week"
    /\ ret.groups = Given(<<"food">>)
    /\ \E i \in 1..Len(ret.summary), j \in 1..Len(ret.summary) :
           i < j /\ ret.summary[i].income > 0 /\ ret.summary[j].outgo > 0

\* ------------------------------------------------------------------------
\* Properties of the GUI
\* ------------------------------------------------------------------------

\* the dates of the selectors once selector is set to d, before the handler
Changed(selector, d) == [date_range EXCEPT ![selector] = d]

C28_Ordered ==
    date_range # None =>
        /\ date_range.begin <= date_range.end
        /\ error = NoError
        /\ call.begin <= call.end
        /\ duration.begin <= duration.end
        /\ duration.begin = date_range.begin /\ duration.end = date_range.end
        /\ event # None =>
               /\ event.begin <= event.end
               /\ event.begin = date_range.begin /\ event.end = date_range.end
               /\ date_range[event.selector] = event.date

C28_Step ==
    date_range # None =>
        /\ event' # event =>
               /\ duration'.period = duration.period
               /\ IF Changed(event'.selector, event'.date).begin
                        > Changed(event'.selector, event'.date).end
                  THEN date_range' = [begin |-> event'.date, end |-> event'.date]
                  ELSE date_range' = Changed(event'.selector, event'.date)
        /\ (event' = event /\ call' # call) =>
               /\ duration'.period = call'.period
               /\ duration'.begin = duration.begin /\ duration'.end = duration.end
               /\ date_range' = date_range

Place(p) == CHOOSE k \in 1..Len(p.duration_list) : p.duration_list[k] = p.span

\* n times show_next
RECURSIVE Nexts(_, _)
Nexts(n, p) ==
    IF n = 0 THEN p
    ELSE LET q == show_next(p)
         IN  IF q.error # NoError THEN q ELSE Nexts(n - 1, q)

\* C29: after any show_prev and show_next the span of the popup is in
\* duration_list and the index lookup has not failed; show_next goes to the
\* following span and from the last to the first, show_prev to the
\* preceding span and from the first to the last; show_next then show_prev,
\* and the reverse, come back to the same span, and so do
\* len(duration_list) times show_next.
C29_PrevNext ==
    popup # None =>
        /\ popup.error = NoError
        /\ \E k \in 1..Len(popup.duration_list) : popup.duration_list[k] = popup.span
        /\ LET n == Len(popup.duration_list)
               k == Place(popup)
           IN  /\ show_next(popup)
                      = [popup EXCEPT !.span = popup.duration_list[IF k = n THEN 1 ELSE k + 1]]
               /\ show_prev(popup)
                      = [popup EXCEPT !.span = popup.duration_list[IF k = 1 THEN n ELSE k - 1]]
               /\ show_prev(show_next(popup)) = popup
               /\ show_next(show_prev(popup)) = popup
               /\ Nexts(n, popup) = popup

C29_Witness ==
    /\ popup # None
    /\ Len(popup.duration_list) >= 3
    /\ popup.span = Last(popup.duration_list)
    /\ duration.period = "week"

\* k is a power of ten
RECURSIVE IsPow10(_)
IsPow10(k) == k = 1 \/ (k >= 10 /\ k % 10 = 0 /\ IsPow10(k \div 10))

\* C30: for a list of integers that is not empty plot_chart ends with
\* grid_values an increasing arithmetic progression whose step is a power
\* of ten; it contains 0, starts at or below min(values, 0) and ends above
\* max(values, 0), so it has at least two elements and
\* grid_values[-1] - grid_values[0] is not zero.
C30_Grid ==
    (chart # None /\ chart.pc = "plotted") =>
        LET grid == chart.grid_values
            n == Len(grid)
        IN  /\ n >= 2
            /\ IsPow10(chart.step)
            /\ \A k \in 1..(n - 1) : grid[k + 1] = grid[k] + chart.step
            /\ \E k \in 1..n : grid[k] = 0
            /\ \A k \in 1..Len(chart.values) :
                   grid[1] <= chart.values[k] /\ chart.values[k] < grid[n]
            /\ grid[1] <= 0 /\ 0 < grid[n]
            /\ grid[n] - grid[1] # 0

C30_Witness ==
    /\ chart # None
    /\ chart.pc = "plotted"
    /\ chart.values = << -101, 9 >>
    /\ chart.step = 100
    /\ chart.grid_values = << -200, -100, 0, 100 >>

=============================================================================
